---- MODULE Spec2Model ----
(***************************************************************************)
(* Email ingestion and entity-linking pipeline of the CRM                  *)
(* (emails/tasks.py, emails/signals.py, emails/models.py, emails/utils.py).*)
(*                                                                         *)
(* The model follows the Celery tasks step by step.  Every database query  *)
(* or write is one atomic step; several workers may run tasks at the same  *)
(* time, so steps of different tasks interleave.                           *)
(***************************************************************************)
EXTENDS Integers, Sequences, FiniteSets, TLC

(* ---------------- bounds of the model ---------------- *)
NumMsgs == 2        \* messages in the Exchange inbox
MaxAtt == 1         \* attachment references per message
NumRuns == 2        \* executions of sync_user_emails
MaxEdits == 2       \* characters changed in a sample tax ID before it is validated
MaxWorkers == 2     \* Celery worker processes
NumRules == 2       \* rows of EmailProcessingRule
NewMsgs == 1        \* messages that arrive before the sync run of the pipeline
MaxPieces == 3      \* pieces a text passed to extract_inn is put together from
NumAccounts == 2    \* rows of EmailCredentials the scheduler looks at
MaxBeats == 2       \* executions of sync_all_user_emails
MaxTicks == 2       \* minutes that pass between them

(* ---------------- program constants ---------------- *)
LookbackDays == 30  \* timedelta(days=30)
PageSize == 100     \* messages[:100]
NoTime == -1        \* a DateTimeField that is NULL

U1 == "u1"          \* the user who owns the mail account (OneToOne)
U2 == "u2"          \* another user of the CRM

MsgIds == 1..NumMsgs
Runs == 1..NumRuns
InitNow == LookbackDays + 1
\* datetime_received is stamped by the mail server: long ago, at the time of the
\* first run, or one tick ahead of the application's clock
RecvTimes == {0, InitNow, InitNow + 1}

VARIABLES
    now,            \* timezone.now(), in ticks
    mailbox,        \* the inbox: message id -> [received, atts, sender_ok, text]
    credentials,    \* the EmailCredentials row of U1
    emails,         \* table EmailMessage (sequence of rows, pk = index)
    attachments,    \* table EmailAttachment
    sync_logs,      \* table EmailSyncLog
    run,            \* per execution of sync_user_emails: its local variables
    tasks,          \* the Celery queue: every .delay() appends a task record
    rules,          \* table EmailProcessingRule
    companies,      \* table Company
    projects,       \* table Project
    project_emails, \* table ProjectEmail
    contacts,       \* table Contact
    inn,            \* the argument of a call of EmailParser._validate_inn
    edits,          \* how many characters of inn were changed
    valid,          \* what the call returned ("unset" before the call)
    inn_text,       \* the argument of a call of EmailParser.extract_inn
    extracted,      \* what the call returned (NotCalled before the call)
    accounts,       \* table EmailCredentials as sync_all_user_emails reads it
    dispatched,     \* the sync_user_emails tasks it has queued
    beats           \* how many times it has run

disp_vars == <<accounts, dispatched, beats>>
parse_vars == <<inn, edits, valid, inn_text, extracted, disp_vars>>
crm_vars == <<rules, companies, projects, project_emails, contacts>>
vars == <<now, mailbox, credentials, emails, attachments, sync_logs, run, tasks,
          crm_vars, parse_vars>>

(* ---------------- helpers ---------------- *)
Max(a, b) == IF a >= b THEN a ELSE b
Min(a, b) == IF a <= b THEN a ELSE b

RECURSIVE SeqSum(_)
SeqSum(s) == IF s = <<>> THEN 0 ELSE Head(s) + SeqSum(Tail(s))

\* the set of elements of a sequence
Range(s) == {s[i] : i \in DOMAIN s}

(* ---------------- EmailCredentials ---------------- *)
NewCredentials ==
    [is_active |-> TRUE, last_sync |-> NoTime, total_emails_processed |-> 0,
     last_error |-> "", last_error_time |-> NoTime]

(* ---------------- EmailSyncLog ---------------- *)
NewSyncLog(t) ==
    [started_at |-> t, completed_at |-> NoTime, status |-> "success",
     emails_fetched |-> 0, emails_processed |-> 0, emails_skipped |-> 0,
     attachments_downloaded |-> 0, errors |-> <<>>]

\* (mutant) the task forgets to create the log row
CreateSyncLogNone(logs, t) == logs

\* EmailSyncLog.objects.create(credentials=credentials, started_at=now)
CreateSyncLog(logs, t) == Append(logs, NewSyncLog(t))

(* ---------------- message texts ---------------- *)
\* A string is a sequence of characters.  The inbox holds messages with these
\* texts; contacts and project_number are what EmailParser.extract_contacts and
\* extract_project_number find in the text.
Texts ==
    << [sender |-> <<"a", "@", "b">>,
        subject |-> <<"A", "B">>,
        body_text |-> <<"i", "n", "n", ":", " ",
                        "7", "7", "0", "7", "0", "8", "3", "8", "9", "3">>,
        body_html |-> <<>>,
        contacts |-> << [email |-> "", phone |-> "7707083893"] >>,
        project_number |-> <<>>],
       [sender |-> <<"b", "@", "b">>,
        subject |-> <<"a">>,
        body_text |-> <<>>,
        body_html |-> <<>>,
        contacts |-> <<>>,
        project_number |-> <<>>],
       [sender |-> <<"A", "@", "b">>,
        subject |-> <<"7", "7", "0", "7", "0", "8", "3", "8", "9", "3">>,
        body_text |-> <<"x", "@", "y", ".", "z", "z", " ", "x", "@", "y", ".", "z", "z">>,
        body_html |-> <<"B">>,
        contacts |-> << [email |-> "x@y.zz", phone |-> ""],
                        [email |-> "x@y.zz", phone |-> ""] >>,
        project_number |-> <<>>] >>

\* the texts of the messages that arrive in the inbox of the pipeline
TextIds == 1..2

(* ---------------- EmailMessage ---------------- *)
\* text stands for the columns sender, subject, body_text, body_html
NewEmail(u, m, t) ==
    [user |-> u, message_id |-> m, text |-> mailbox[m].text,
     received_at |-> mailbox[m].received,
     created_at |-> t, has_attachments |-> mailbox[m].atts > 0,
     parsed_inn |-> <<>>, parsed_project_number |-> <<>>, parsed_contacts |-> <<>>,
     related_company |-> 0, related_project |-> 0,
     is_important |-> FALSE, is_processed |-> FALSE, processing_errors |-> <<>>]

Sender(e) == Texts[e.text].sender
Subject(e) == Texts[e.text].subject
BodyText(e) == Texts[e.text].body_text
BodyHtml(e) == Texts[e.text].body_html

\* task.delay(email_id): the record of a queued task; loc is the task's copy of the
\* EmailMessage row, fired the rule it applied, project the row it created, caught
\* whether its except branch ran
NewTask(name, pk) ==
    [name |-> name, email |-> pk, pc |-> "queued", contacts_data |-> <<>>,
     loc |-> <<>>, fired |-> {}, project |-> 0, caught |-> FALSE]

\* (mutant) the dedup query finds nothing
ExistingEmailNever(u, m) == FALSE

\* EmailMessage.objects.filter(user=..., message_id=...).first()
ExistingEmail(u, m) ==
    \E i \in DOMAIN emails : emails[i].user = u /\ emails[i].message_id = m

\* message_id = CharField(unique=True): the INSERT raises IntegrityError
MessageIdTaken(m) == \E i \in DOMAIN emails : emails[i].message_id = m

(* ---------------- the Exchange inbox ---------------- *)
\* credentials.last_sync or (timezone.now() - timedelta(days=30))
SinceDate(cred, t) == IF cred.last_sync # NoTime THEN cred.last_sync ELSE t - LookbackDays

\* inbox.filter(datetime_received__gte=since).order_by("-datetime_received")[:100]
\* Messages with equal timestamps come in an order the server chooses.
FetchWindows(since) ==
    LET cand == {m \in MsgIds : mailbox[m].received >= since}
        n == Min(PageSize, Cardinality(cand))
    IN {w \in [1..n -> cand] :
          /\ \A i, j \in 1..n : i < j => w[i] # w[j]
          /\ \A i, j \in 1..n : i < j => mailbox[w[i]].received >= mailbox[w[j]].received
          /\ \A m \in cand \ Range(w) :
                \A i \in 1..n : mailbox[m].received <= mailbox[w[i]].received}

(* ---------------- EmailParser._validate_inn ---------------- *)
\* A string is a sequence of characters.  "sup2" is the character U+00B2: str.isdigit()
\* accepts it and int() raises ValueError on it.
Digits == {"0", "1", "2", "3", "4", "5", "6", "7", "8", "9"}
Chars == Digits \cup {"a", "sup2"}

\* int(d) for a decimal digit
DigitVal ==
    ("0" :> 0) @@ ("1" :> 1) @@ ("2" :> 2) @@ ("3" :> 3) @@ ("4" :> 4) @@
    ("5" :> 5) @@ ("6" :> 6) @@ ("7" :> 7) @@ ("8" :> 8) @@ ("9" :> 9)

\* str.isdigit(): every character is a digit character, and there is one at least
IsDigitStr(str) == str # <<>> /\ \A i \in DOMAIN str : str[i] \in Digits \cup {"sup2"}

Weights10 == <<2, 4, 10, 3, 5, 9, 4, 6, 8>>
Weights12a == <<7, 2, 4, 10, 3, 5, 9, 4, 6, 8>>
Weights12b == <<3, 7, 2, 4, 10, 3, 5, 9, 4, 6, 8>>

\* sum(d * w for d, w in zip(digits, weights)): zip stops at the shorter one
ZipSum(digits, weights) ==
    SeqSum([i \in 1..Min(Len(digits), Len(weights)) |-> digits[i] * weights[i]])

\* (mutant) the checksum is reduced modulo 11 only
ControlDigitMod11(sum) == sum % 11

\* control_sum % 11 % 10
ControlDigit(sum) == (sum % 11) % 10

\* The body of the try block: "ValueError" when int(d) raises, else the value returned.
ValidateInnTry(str) ==
    IF \E i \in DOMAIN str : str[i] \notin DOMAIN DigitVal THEN "ValueError"
    ELSE LET digits == [i \in DOMAIN str |-> DigitVal[str[i]]] IN
         IF Len(str) = 10
         THEN IF ControlDigit(ZipSum(SubSeq(digits, 1, 9), Weights10)) = digits[10]
              THEN "true" ELSE "false"
         ELSE IF Len(str) = 12
         THEN IF ControlDigit(ZipSum(SubSeq(digits, 1, 10), Weights12a)) # digits[11]
              THEN "false"
              ELSE IF ControlDigit(ZipSum(SubSeq(digits, 1, 11), Weights12b)) = digits[12]
                   THEN "true" ELSE "false"
         ELSE "true"

\* _validate_inn(inn): "true" or "false"; the except clause returns False for a
\* ValueError or an IndexError of the try block
ValidateInn(str) ==
    IF str = <<>> \/ ~IsDigitStr(str) THEN "false"
    ELSE IF Len(str) \notin {10, 12} THEN "false"
    ELSE LET res == ValidateInnTry(str) IN
         IF res \in {"ValueError", "IndexError"} THEN "false" ELSE res

\* tax IDs the calls start from: none, one of an organisation, one of a person
SampleInns ==
    { <<>>,
      <<"7", "7", "0", "7", "0", "8", "3", "8", "9", "3">>,
      <<"5", "0", "0", "1", "0", "0", "7", "3", "2", "2", "5", "9">> }

(* ---------------- EmailParser.extract_inn ---------------- *)
\* characters that are not word characters (\w) of a regular expression
NonWord == {" ", ":", "@", "#", "-"}
Space == {" "}
Seps == {":", " "}

\* str.lower() of a character
Lower(c) ==
    CASE c = "A" -> "a" [] c = "B" -> "b" [] c = "I" -> "i" [] c = "N" -> "n"
      [] c = "CyrI" -> "cyri" [] c = "CyrN" -> "cyrn"
      [] OTHER -> c

LowerStr(str) == [i \in DOMAIN str |-> Lower(str[i])]

\* needle in hay
Contains(needle, hay) ==
    \E p \in 0..(Len(hay) - Len(needle)) : SubSeq(hay, p + 1, p + Len(needle)) = needle

\* the number of \d characters from position p on
RECURSIVE DigitRun(_, _)
DigitRun(text, p) ==
    IF p \in DOMAIN text /\ text[p] \in Digits THEN 1 + DigitRun(text, p + 1) ELSE 0

\* the first position from p on whose character is not in set
RECURSIVE SkipAll(_, _, _)
SkipAll(text, p, set) ==
    IF p \in DOMAIN text /\ text[p] \in set THEN SkipAll(text, p + 1, set) ELSE p

IsWordAt(text, p) == p \in DOMAIN text /\ text[p] \notin NonWord

\* \b before position p
Boundary(text, p) == IsWordAt(text, p - 1) # IsWordAt(text, p)

\* re.findall(r"\b\d{n}\b", text)
BareMatches(text, n) ==
    LET At(p) == Boundary(text, p) /\ DigitRun(text, p) >= n /\ Boundary(text, p + n)
        pos == SelectSeq([p \in DOMAIN text |-> p], At)
    IN [k \in DOMAIN pos |-> SubSeq(text, pos[k], pos[k] + n - 1)]

\* the label at position p, letter case ignored; the position after it, or 0
AfterLabel(text, p, label) ==
    IF /\ p + Len(label) - 1 <= Len(text)
       /\ LowerStr(SubSeq(text, p, p + Len(label) - 1)) = LowerStr(label)
    THEN p + Len(label) ELSE 0

CyrInn == <<"CyrI", "CyrN", "CyrN">>
LatInn == <<"i", "n", "n">>
CyrOrg == <<"cyro", "cyrr", "cyrg", "cyra", "cyrn", "cyri", "cyrz", "cyra", "cyrc",
            "cyri", "cyri">>

\* re.findall(label \s* word [:\s]* (\d{10,12}), text, re.IGNORECASE)
LabelMatches(text, label, word) ==
    LET DigitsAt(p) ==
            LET a == AfterLabel(text, p, label)
                b == IF a = 0 THEN 0 ELSE AfterLabel(text, SkipAll(text, a, Space), word)
            IN IF b = 0 THEN 0 ELSE SkipAll(text, b, Seps)
        At(p) == DigitsAt(p) # 0 /\ DigitRun(text, DigitsAt(p)) >= 10
        pos == SelectSeq([p \in DOMAIN text |-> p], At)
    IN [k \in DOMAIN pos |->
          SubSeq(text, DigitsAt(pos[k]),
                 DigitsAt(pos[k]) + Min(DigitRun(text, DigitsAt(pos[k])), 12) - 1)]

\* the matches of INN_PATTERNS, pattern after pattern
InnCandidates(text) ==
    BareMatches(text, 10) \o BareMatches(text, 12) \o LabelMatches(text, CyrInn, <<>>)
        \o LabelMatches(text, LatInn, <<>>) \o LabelMatches(text, CyrInn, CyrOrg)

\* (mutant) the first match is returned without the validity check
ExtractInnFirstMatch(str) ==
    IF str = <<>> \/ InnCandidates(str) = <<>> THEN <<>> ELSE Head(InnCandidates(str))

\* extract_inn(text): the first candidate that validates; <<>> stands for None
ExtractInn(str) ==
    LET IsValid(c) == ValidateInn(c) = "true"
        good == SelectSeq(InnCandidates(str), IsValid)
    IN IF str = <<>> \/ good = <<>> THEN <<>> ELSE Head(good)

\* no call of extract_inn has returned yet
NotCalled == <<"?">>

\* extract_project_number, extract_contacts: what they find in the message's text
ExtractProjectNumber(e) == Texts[e.text].project_number
ExtractContacts(e) == Texts[e.text].contacts

(* ---------------- sync_user_emails ---------------- *)
\* What the task can see of a message: one that is too old is never fetched, and
\* one without a sender raises before its attachments are read.
MsgKinds ==
    {k \in [received : RecvTimes, atts : 0..MaxAtt, sender_ok : BOOLEAN, text : {1}] :
        /\ k.received < InitNow - LookbackDays => k.atts = 0 /\ k.sender_ok
        /\ ~k.sender_ok => k.atts = 0}

KindRank(k) == k.received * 100 + k.atts * 2 + (IF k.sender_ok THEN 1 ELSE 0)

\* Message ids are interchangeable names, so every inbox is listed once, with its
\* messages in the order of their kinds.
Inboxes ==
    {mb \in [MsgIds -> MsgKinds] :
        \A i, j \in MsgIds : i < j => KindRank(mb[i]) <= KindRank(mb[j])}

\* Rows of EmailMessage another user's sync stored before: the same message was
\* delivered to both mailboxes.
ForeignEmail(mb, m) ==
    [user |-> U2, message_id |-> m, text |-> mb[m].text,
     received_at |-> mb[m].received,
     created_at |-> 0, has_attachments |-> mb[m].atts > 0,
     parsed_inn |-> <<>>, parsed_project_number |-> <<>>, parsed_contacts |-> <<>>,
     related_company |-> 0, related_project |-> 0,
     is_important |-> FALSE, is_processed |-> TRUE, processing_errors |-> <<>>]

IdleRun ==
    [pc |-> "idle", cred |-> NewCredentials, log |-> 0, window |-> <<>>, i |-> 1,
     emails_processed |-> 0, emails_skipped |-> 0, attachments_downloaded |-> 0,
     errors |-> <<>>]

\* the task has returned: its local variables are gone, its log row stays
Returned(pc, log) == [IdleRun EXCEPT !.pc = pc, !.log = log]

Init ==
    /\ now = InitNow
    /\ mailbox \in Inboxes
    /\ credentials \in {[NewCredentials EXCEPT !.is_active = a] : a \in BOOLEAN}
    /\ emails \in {<<>>} \cup {<<ForeignEmail(mailbox, m)>> : m \in MsgIds}
    /\ attachments = <<>>
    /\ sync_logs = <<>>
    /\ run = [r \in Runs |-> IdleRun]
    /\ tasks = <<>>
    /\ rules = <<>>
    /\ companies = <<>>
    /\ projects = <<>>
    /\ project_emails = <<>>
    /\ contacts = <<>>
    /\ inn = <<>>
    /\ edits = 0
    /\ valid = "unset"
    /\ inn_text = <<>>
    /\ extracted = NotCalled
    /\ accounts = <<>>
    /\ dispatched = <<>>
    /\ beats = 0

\* credentials = EmailCredentials.objects.get(id=..., user_id=..., is_active=True)
\* then EmailSyncLog.objects.create(...); without the row the task returns.
\* Executions are numbered in the order in which they start.
StartSync(r) ==
    /\ run[r].pc = "idle"
    /\ \A q \in Runs : q < r => run[q].pc # "idle"
    /\ IF credentials.is_active
       THEN /\ sync_logs' = CreateSyncLog(sync_logs, now)
            /\ run' = [run EXCEPT ![r] = [@ EXCEPT !.pc = "connect", !.cred = credentials,
                                                   !.log = Len(sync_logs) + 1]]
       ELSE /\ run' = [run EXCEPT ![r] = [@ EXCEPT !.pc = "rejected"]]
            /\ UNCHANGED sync_logs
    /\ UNCHANGED <<now, mailbox, credentials, emails, attachments, tasks, crm_vars, parse_vars>>

\* Account(...), inbox.filter(...)[:100]: the connection works, the page is fetched
ConnectOk(r) ==
    /\ run[r].pc = "connect"
    /\ \E w \in FetchWindows(SinceDate(run[r].cred, now)) :
          run' = [run EXCEPT ![r] = [@ EXCEPT !.pc = "loop", !.window = w, !.i = 1]]
    /\ UNCHANGED <<now, mailbox, credentials, emails, attachments, sync_logs, tasks, crm_vars, parse_vars>>

\* sync_log as the failing run saves it
FailedLog(log, msg, t) ==
    [log EXCEPT !.status = "failed", !.errors = Append(@, msg), !.completed_at = t]

\* except (ErrorNonExistentMailbox, ErrorAccessDenied): the log is saved as failed,
\* then credentials.save() writes the task's copy of the row back
ConnectDenied(r) ==
    /\ run[r].pc = "connect"
    /\ sync_logs' = [sync_logs EXCEPT ![run[r].log] =
                        FailedLog(@, "Exchange connection error", now)]
    /\ credentials' = [run[r].cred EXCEPT !.last_error = "Exchange connection error",
                                           !.last_error_time = now]
    /\ run' = [run EXCEPT ![r] = Returned("failed", run[r].log)]
    /\ now' = now + 1
    /\ UNCHANGED <<mailbox, emails, attachments, tasks, crm_vars, parse_vars>>

\* except Exception: only the log is saved as failed
ConnectError(r) ==
    /\ run[r].pc = "connect"
    /\ sync_logs' = [sync_logs EXCEPT ![run[r].log] =
                        FailedLog(@, "Unexpected error during email sync", now)]
    /\ run' = [run EXCEPT ![r] = Returned("failed", run[r].log)]
    /\ now' = now + 1
    /\ UNCHANGED <<mailbox, credentials, emails, attachments, tasks, crm_vars, parse_vars>>

\* the message the loop is at
CurMsg(r) == run[r].window[run[r].i]

\* existing_email = ...first(); if existing_email: emails_skipped += 1; continue
DedupCheck(r) ==
    /\ run[r].pc = "loop"
    /\ run[r].i <= Len(run[r].window)
    /\ IF ExistingEmail(U1, CurMsg(r))
       THEN run' = [run EXCEPT ![r] = [@ EXCEPT !.emails_skipped = @ + 1, !.i = @ + 1]]
       ELSE run' = [run EXCEPT ![r] = [@ EXCEPT !.pc = "create"]]
    /\ UNCHANGED <<now, mailbox, credentials, emails, attachments, sync_logs, tasks, crm_vars, parse_vars>>

\* (mutant) the handler leaves the loop instead of continuing with the next message
AfterMessageErrorBreak(rr, m, text) ==
    [rr EXCEPT !.pc = "loop", !.errors = Append(@, [message_id |-> m, text |-> text]),
               !.i = Len(rr.window) + 1]

\* except Exception as e: sync_log.errors.append(...); continue
AfterMessageError(rr, m, text) ==
    [rr EXCEPT !.pc = "loop", !.errors = Append(@, [message_id |-> m, text |-> text]),
               !.i = @ + 1]

\* EmailMessage.objects.create(...) raises before a row is stored: the message has
\* no sender (message.sender.email_address), or the message_id is already stored
CreateRaises(r) ==
    /\ run[r].pc = "create"
    /\ \/ /\ ~mailbox[CurMsg(r)].sender_ok
          /\ run' = [run EXCEPT ![r] = AfterMessageError(@, CurMsg(r), "AttributeError")]
       \/ /\ mailbox[CurMsg(r)].sender_ok
          /\ MessageIdTaken(CurMsg(r))
          /\ run' = [run EXCEPT ![r] = AfterMessageError(@, CurMsg(r), "IntegrityError")]
    /\ UNCHANGED <<now, mailbox, credentials, emails, attachments, sync_logs, tasks, crm_vars, parse_vars>>

\* The row is stored, post_save runs email_received_handler: it queues
\* process_email_message and then the notification raises (channel layer down).
\* The exception leaves create() and reaches the handler of the message loop.
CreateNotifyFails(r) ==
    /\ run[r].pc = "create"
    /\ mailbox[CurMsg(r)].sender_ok
    /\ ~MessageIdTaken(CurMsg(r))
    /\ emails' = Append(emails, NewEmail(U1, CurMsg(r), now))
    /\ tasks' = Append(tasks, NewTask("process_email_message", Len(emails) + 1))
    /\ run' = [run EXCEPT ![r] = AfterMessageError(@, CurMsg(r), "notification")]
    /\ UNCHANGED <<now, mailbox, credentials, attachments, sync_logs, crm_vars, parse_vars>>

\* one EmailAttachment row per reference: the try branch stores is_downloaded=True,
\* the except branch stores the row with download_errors=str(e)
AttachmentRows(pk, m, dl) ==
    [k \in 1..mailbox[m].atts |->
        IF dl[k] THEN [email |-> pk, ref |-> k, is_downloaded |-> TRUE, download_errors |-> ""]
        ELSE [email |-> pk, ref |-> k, is_downloaded |-> FALSE, download_errors |-> "error"]]

\* The row is stored, the handler queues process_email_message and notifies;
\* then the attachment loop, process_email_message.delay(), emails_processed += 1
CreateAndAttach(r) ==
    /\ run[r].pc = "create"
    /\ mailbox[CurMsg(r)].sender_ok
    /\ ~MessageIdTaken(CurMsg(r))
    /\ emails' = Append(emails, NewEmail(U1, CurMsg(r), now))
    /\ \E dl \in [1..mailbox[CurMsg(r)].atts -> BOOLEAN] :
          /\ attachments' = attachments \o AttachmentRows(Len(emails) + 1, CurMsg(r), dl)
          /\ run' = [run EXCEPT ![r] =
                [@ EXCEPT !.pc = "loop", !.i = @ + 1, !.emails_processed = @ + 1,
                          !.attachments_downloaded =
                              @ + Cardinality({k \in DOMAIN dl : dl[k]})]]
    /\ tasks' = tasks \o << NewTask("process_email_message", Len(emails) + 1),
                          NewTask("process_email_message", Len(emails) + 1) >>
    /\ UNCHANGED <<now, mailbox, credentials, sync_logs, crm_vars, parse_vars>>

\* sync_log.status = "success" if emails_processed > 0 else "partial"
FinalStatus(rr) == IF rr.emails_processed > 0 THEN "success" ELSE "partial"

\* the statistics are written to the log and saved; then credentials.last_sync,
\* total_emails_processed are set on the task's copy and credentials.save()
Finalize(r) ==
    /\ run[r].pc = "loop"
    /\ run[r].i > Len(run[r].window)
    /\ sync_logs' = [sync_logs EXCEPT ![run[r].log] =
            [@ EXCEPT !.emails_fetched = Len(run[r].window),
                      !.emails_processed = run[r].emails_processed,
                      !.emails_skipped = run[r].emails_skipped,
                      !.attachments_downloaded = run[r].attachments_downloaded,
                      !.status = FinalStatus(run[r]),
                      !.errors = run[r].errors,
                      !.completed_at = now]]
    /\ credentials' = [run[r].cred EXCEPT !.last_sync = now,
                            !.total_emails_processed = @ + run[r].emails_processed]
    /\ run' = [run EXCEPT ![r] = Returned("done", run[r].log)]
    /\ now' = now + 1
    /\ UNCHANGED <<mailbox, emails, attachments, tasks, crm_vars, parse_vars>>

\* sync_log.emails_fetched = len(messages) asks the server again and the call fails
\* (network error): except Exception saves the log, with the errors the loop
\* appended to it, as failed; credentials are not saved
FinalizeFails(r) ==
    /\ run[r].pc = "loop"
    /\ run[r].i > Len(run[r].window)
    /\ sync_logs' = [sync_logs EXCEPT ![run[r].log] =
            FailedLog([@ EXCEPT !.errors = run[r].errors],
                      "Unexpected error during email sync", now)]
    /\ run' = [run EXCEPT ![r] = Returned("failed", run[r].log)]
    /\ now' = now + 1
    /\ UNCHANGED <<mailbox, credentials, emails, attachments, tasks, crm_vars, parse_vars>>

\* sync_log.save() raises (the database is unreachable): except Exception calls
\* sync_log.save() again, which raises as well, and the exception leaves the task;
\* nothing is written
FinalizeRaises(r) ==
    /\ run[r].pc = "loop"
    /\ run[r].i > Len(run[r].window)
    /\ run' = [run EXCEPT ![r] = Returned("raised", run[r].log)]
    /\ now' = now + 1
    /\ UNCHANGED <<mailbox, credentials, emails, attachments, sync_logs, tasks, crm_vars, parse_vars>>

\* the settings page: form.save() with the is_active checkbox changed
SaveCredentialsForm ==
    /\ credentials' = [credentials EXCEPT !.is_active = ~@]
    /\ UNCHANGED <<now, mailbox, emails, attachments, sync_logs, run, tasks, crm_vars, parse_vars>>

SyncStep(r) ==
    \/ ConnectOk(r)
    \/ ConnectDenied(r)
    \/ ConnectError(r)
    \/ DedupCheck(r)
    \/ CreateRaises(r)
    \/ CreateNotifyFails(r)
    \/ CreateAndAttach(r)
    \/ Finalize(r)

Next ==
    \/ \E r \in Runs : StartSync(r)
    \/ \E r \in Runs : SyncStep(r)
    \/ SaveCredentialsForm

Spec == Init /\ [][Next]_vars

\* one run after the other: a run starts only when no other run is under way
NoRunUnderWay ==
    \A q \in Runs : run[q].pc \in {"idle", "done", "failed", "raised", "rejected"}

NextSeq ==
    \/ \E r \in Runs : NoRunUnderWay /\ StartSync(r)
    \/ \E r \in Runs : SyncStep(r)

SpecSeq == Init /\ [][NextSeq]_vars

\* ... and the statements after the loop can fail as well
NextSeqFaults ==
    \/ NextSeq
    \/ \E r \in Runs : FinalizeFails(r)
    \/ \E r \in Runs : FinalizeRaises(r)

SpecSeqFaults == Init /\ [][NextSeqFaults]_vars

(* ---------------- process_email_message ---------------- *)
\* (mutant) the conditions are compared without lower()
MatchesEmailCaseSensitive(rule, e) ==
    /\ rule.sender_contains # <<>> => Contains(rule.sender_contains, Sender(e))
    /\ rule.subject_contains # <<>> => Contains(rule.subject_contains, Subject(e))
    /\ rule.body_contains # <<>> =>
          Contains(rule.body_contains, BodyText(e) \o BodyHtml(e))

\* EmailProcessingRule.matches_email(email_message)
MatchesEmail(rule, e) ==
    /\ rule.sender_contains # <<>> =>
          Contains(LowerStr(rule.sender_contains), LowerStr(Sender(e)))
    /\ rule.subject_contains # <<>> =>
          Contains(LowerStr(rule.subject_contains), LowerStr(Subject(e)))
    /\ rule.body_contains # <<>> =>
          Contains(LowerStr(rule.body_contains), LowerStr(BodyText(e) \o BodyHtml(e)))

\* EmailProcessingRule.objects.filter(user=email.user, is_active=True), the ones
\* that match
MatchingRules(e) ==
    {q \in DOMAIN rules :
        rules[q].user = e.user /\ rules[q].is_active /\ MatchesEmail(rules[q], e)}

\* (mutant) the rules are not ordered: any matching rule may come first
FirstMatchingUnordered(e) == MatchingRules(e)

\* .order_by("priority"), the first rule of the loop that matches; rules of equal
\* priority come in an order the database chooses
FirstMatching(e) ==
    {q \in MatchingRules(e) :
        \A q2 \in MatchingRules(e) : rules[q].priority <= rules[q2].priority}

\* Company.objects.filter(user=email.user, inn=email.parsed_inn, is_active=True)
CompaniesFor(e) ==
    {c \in DOMAIN companies :
        /\ companies[c].user = e.user
        /\ companies[c].inn = e.parsed_inn
        /\ companies[c].is_active}

\* inn = parser.extract_inn(body_text + " " + body_html); if inn: parsed_inn = inn
WithInn(e) ==
    LET found == ExtractInn(BodyText(e) \o <<" ">> \o BodyHtml(e))
    IN IF found # <<>> THEN [e EXCEPT !.parsed_inn = found] ELSE e

\* if project_number: email.parsed_project_number = project_number
WithProjectNumber(e) ==
    IF ExtractProjectNumber(e) # <<>>
    THEN [e EXCEPT !.parsed_project_number = ExtractProjectNumber(e)] ELSE e

\* if contacts: email.parsed_contacts = contacts
WithContacts(e) ==
    IF ExtractContacts(e) # <<>>
    THEN [e EXCEPT !.parsed_contacts = ExtractContacts(e)] ELSE e

\* if email.parsed_inn: company = ...first(); if company: related_company = company
WithCompany(e) ==
    IF e.parsed_inn # <<>> /\ CompaniesFor(e) # {}
    THEN [e EXCEPT !.related_company = CHOOSE c \in CompaniesFor(e) : TRUE]
    ELSE e

\* the row after the parsing steps and the company lookup
Parsed(e) == WithCompany(WithContacts(WithProjectNumber(WithInn(e))))

\* the tasks the actions of a rule queue
RuleTasks(rule, pk, e) ==
    (IF rule.auto_create_project
     THEN << NewTask("create_project_from_email", pk) >> ELSE <<>>)
    \o (IF rule.auto_create_contact /\ e.parsed_contacts # <<>>
        THEN << [NewTask("create_contacts_from_email", pk)
                    EXCEPT !.contacts_data = e.parsed_contacts] >>
        ELSE <<>>)

\* tasks whose worker is busy with them
Running(t) == tasks[t].pc \notin {"queued", "done"}

InFlight ==
    Cardinality({r \in Runs : run[r].pc \in {"connect", "loop", "create"}})
        + Cardinality({t \in DOMAIN tasks : Running(t)})

\* a free worker takes the task at the head of the queue
NextInQueue(t) ==
    /\ t \in DOMAIN tasks
    /\ tasks[t].pc = "queued"
    /\ \A t2 \in DOMAIN tasks : t2 < t => tasks[t2].pc # "queued"
    /\ InFlight < MaxWorkers

\* the task has returned: its copy of the row is gone
TaskDone(task) == [task EXCEPT !.pc = "done", !.loc = <<>>]

\* email = EmailMessage.objects.get(id=email_id)
ProcStart(t) ==
    /\ NextInQueue(t)
    /\ tasks[t].name = "process_email_message"
    /\ tasks' = [tasks EXCEPT ![t] = [@ EXCEPT !.pc = "rules", !.loc = emails[tasks[t].email]]]
    /\ UNCHANGED <<now, mailbox, credentials, emails, attachments, sync_logs, run,
                   crm_vars, parse_vars>>

\* the parsing steps, the company lookup and the loop over the rules: the first
\* rule that matches queues its tasks and sets is_important, then break
ProcRules(t) ==
    /\ t \in DOMAIN tasks
    /\ tasks[t].name = "process_email_message"
    /\ tasks[t].pc = "rules"
    /\ LET e == Parsed(tasks[t].loc) IN
          IF FirstMatching(e) = {}
          THEN tasks' = [tasks EXCEPT ![t] = [@ EXCEPT !.pc = "save", !.loc = e]]
          ELSE \E q \in FirstMatching(e) :
                  tasks' = [tasks EXCEPT ![t] =
                              [@ EXCEPT !.pc = "save", !.fired = {q},
                                        !.loc = [e EXCEPT !.is_important =
                                                    @ \/ rules[q].mark_as_important]]]
                           \o RuleTasks(rules[q], tasks[t].email, e)
    /\ UNCHANGED <<now, mailbox, credentials, emails, attachments, sync_logs, run,
                   crm_vars, parse_vars>>

\* (mutant) the except branch marks the message as processed as well
ErrorRowProcessed(e) ==
    [e EXCEPT !.processing_errors = Append(@, "error"), !.is_processed = TRUE]

\* email.processing_errors.append(str(e)): the row the except branch saves
ErrorRow(e) == [e EXCEPT !.processing_errors = Append(@, "error")]

\* A query or a .delay() of the try block raises (database or broker failure) after
\* the parsing steps: except Exception appends the text and calls email.save()
ProcError(t) ==
    /\ t \in DOMAIN tasks
    /\ tasks[t].name = "process_email_message"
    /\ tasks[t].pc = "rules"
    /\ emails' = [emails EXCEPT ![tasks[t].email] = ErrorRow(WithContacts(
                     WithProjectNumber(WithInn(tasks[t].loc))))]
    /\ tasks' = [tasks EXCEPT ![t] = [TaskDone(@) EXCEPT !.caught = TRUE]]
    /\ UNCHANGED <<now, mailbox, credentials, attachments, sync_logs, run,
                   crm_vars, parse_vars>>

\* email.is_processed = True; email.save() writes every column of the task's copy
ProcSave(t) ==
    /\ t \in DOMAIN tasks
    /\ tasks[t].name = "process_email_message"
    /\ tasks[t].pc = "save"
    /\ emails' = [emails EXCEPT ![tasks[t].email] =
                     [tasks[t].loc EXCEPT !.is_processed = TRUE]]
    /\ tasks' = [tasks EXCEPT ![t] = TaskDone(@)]
    /\ UNCHANGED <<now, mailbox, credentials, attachments, sync_logs, run,
                   crm_vars, parse_vars>>

(* ---------------- create_project_from_email ---------------- *)
\* Project.objects.filter(user=email.user, source_email_id=email.message_id).first()
ExistingProject(u, m) ==
    \E p \in DOMAIN projects : projects[p].user = u /\ projects[p].source_email_id = m

\* email = EmailMessage.objects.get(id=email_id); if existing_project: return
ProjStart(t) ==
    /\ NextInQueue(t)
    /\ tasks[t].name = "create_project_from_email"
    /\ LET e == emails[tasks[t].email] IN
          IF ExistingProject(e.user, e.message_id)
          THEN tasks' = [tasks EXCEPT ![t] = TaskDone(@)]
          ELSE tasks' = [tasks EXCEPT ![t] = [@ EXCEPT !.pc = "create", !.loc = e]]
    /\ UNCHANGED <<now, mailbox, credentials, emails, attachments, sync_logs, run,
                   crm_vars, parse_vars>>

\* Project.objects.create(...); if email.related_company: project.company = ...
ProjCreate(t) ==
    /\ t \in DOMAIN tasks
    /\ tasks[t].name = "create_project_from_email"
    /\ tasks[t].pc = "create"
    /\ projects' = Append(projects,
            [user |-> tasks[t].loc.user, source_email_id |-> tasks[t].loc.message_id,
             inn |-> tasks[t].loc.parsed_inn,
             project_number |-> tasks[t].loc.parsed_project_number,
             company |-> tasks[t].loc.related_company])
    /\ tasks' = [tasks EXCEPT ![t] = [@ EXCEPT !.pc = "link", !.project = Len(projects) + 1]]
    /\ UNCHANGED <<now, mailbox, credentials, emails, attachments, sync_logs, run,
                   rules, companies, project_emails, contacts, parse_vars>>

\* ProjectEmail.message_id is unique: the INSERT raises IntegrityError
ProjectEmailTaken(m) == \E i \in DOMAIN project_emails : project_emails[i].message_id = m

\* ProjectEmail.objects.create(...); email.related_project = project; email.save().
\* An IntegrityError of the INSERT is caught by the task's handler and logged.
ProjLink(t) ==
    /\ t \in DOMAIN tasks
    /\ tasks[t].name = "create_project_from_email"
    /\ tasks[t].pc = "link"
    /\ IF ProjectEmailTaken(tasks[t].loc.message_id)
       THEN UNCHANGED <<emails, project_emails>>
       ELSE /\ project_emails' = Append(project_emails,
                    [project |-> tasks[t].project, message_id |-> tasks[t].loc.message_id])
            /\ emails' = [emails EXCEPT ![tasks[t].email] =
                             [tasks[t].loc EXCEPT !.related_project = tasks[t].project]]
    /\ tasks' = [tasks EXCEPT ![t] = TaskDone(@)]
    /\ UNCHANGED <<now, mailbox, credentials, attachments, sync_logs, run,
                   rules, companies, projects, contacts, parse_vars>>

(* ---------------- create_contacts_from_email ---------------- *)
\* for contact_data in contacts_data: skip it if a Contact of the user has its
\* email, else Contact.objects.create(...)
RECURSIVE CreateContacts(_, _, _)
CreateContacts(rows, u, data) ==
    IF data = <<>> THEN rows
    ELSE LET cd == Head(data)
             existing == \E i \in DOMAIN rows : rows[i].user = u /\ rows[i].email = cd.email
         IN CreateContacts(IF existing THEN rows
                           ELSE Append(rows, [user |-> u, email |-> cd.email,
                                              phone |-> cd.phone]),
                           u, Tail(data))

ContactsRun(t) ==
    /\ NextInQueue(t)
    /\ tasks[t].name = "create_contacts_from_email"
    /\ contacts' = CreateContacts(contacts, emails[tasks[t].email].user,
                                  tasks[t].contacts_data)
    /\ tasks' = [tasks EXCEPT ![t] = TaskDone(@)]
    /\ UNCHANGED <<now, mailbox, credentials, emails, attachments, sync_logs, run,
                   rules, companies, projects, project_emails, parse_vars>>

(* ---------------- the pipeline: sync, then the queued tasks ---------------- *)
NewRule(u, active, prio, subj, acts) ==
    [user |-> u, is_active |-> active, priority |-> prio,
     sender_contains |-> <<>>, subject_contains |-> subj, body_contains |-> <<>>,
     auto_create_project |-> acts[1], auto_create_contact |-> acts[2],
     mark_as_important |-> acts[3]]

DefaultPriority == 100
Priorities == {1, DefaultPriority}
SubjectConds == {<<>>, <<"b">>}
RuleActions == {<<TRUE, FALSE, FALSE>>, <<FALSE, TRUE, TRUE>>}

\* rules of the user, and rules the query leaves out: an inactive one, one of
\* another user
RuleKinds ==
    {NewRule(U1, TRUE, p, sc, a) : p \in Priorities, sc \in SubjectConds, a \in RuleActions}
    \cup {NewRule(U1, FALSE, 1, <<>>, <<TRUE, TRUE, TRUE>>),
          NewRule(U2, TRUE, 1, <<>>, <<TRUE, TRUE, TRUE>>)}

RuleRank(k) ==
    (IF k.user = U1 THEN 0 ELSE 2000) + (IF k.is_active THEN 0 ELSE 1000)
    + k.priority * 4 + (IF k.subject_contains = <<>> THEN 0 ELSE 2)
    + (IF k.auto_create_project THEN 0 ELSE 1)

\* primary keys are interchangeable names: every set of rules is listed once
RuleTables ==
    {rs \in [1..NumRules -> RuleKinds] :
        \A i, j \in 1..NumRules : i < j => RuleRank(rs[i]) <= RuleRank(rs[j])}

OrgInn == <<"7", "7", "0", "7", "0", "8", "3", "8", "9", "3">>

\* Company.inn is unique: one company at most has the tax ID of the sample text
CompanyTables == {<<>>, << [user |-> U1, inn |-> OrgInn, is_active |-> TRUE] >>}

\* NewMsgs well-formed messages have arrived; the rest of the inbox is too old
\* to be fetched
PipeInboxes ==
    {mb \in [MsgIds -> [received : {0, InitNow}, atts : {0}, sender_ok : {TRUE},
                        text : TextIds]] :
        /\ \A m \in MsgIds : mb[m].received = InitNow <=> m <= NewMsgs
        /\ \A m \in MsgIds : mb[m].received = 0 => mb[m].text = 1
        /\ \A i, j \in 1..NewMsgs : i < j => mb[i].text <= mb[j].text}

InitPipe ==
    /\ now = InitNow
    /\ mailbox \in PipeInboxes
    /\ credentials = NewCredentials
    /\ emails = <<>>
    /\ attachments = <<>>
    /\ sync_logs = <<>>
    /\ run = [r \in Runs |-> IdleRun]
    /\ tasks = <<>>
    /\ rules \in RuleTables
    /\ companies \in CompanyTables
    /\ projects = <<>>
    /\ project_emails = <<>>
    /\ contacts = <<>>
    /\ inn = <<>>
    /\ edits = 0
    /\ valid = "unset"
    /\ inn_text = <<>>
    /\ extracted = NotCalled
    /\ accounts = <<>>
    /\ dispatched = <<>>
    /\ beats = 0

\* the tasks that follow one sync run; sync_user_emails is a task as well and
\* takes a worker
PipeStartSync(r) == (\A q \in Runs : run[q].pc = "idle") /\ StartSync(r)

\* the mail server and the channel layer are up
PipeSyncStep(r) ==
    \/ ConnectOk(r)
    \/ DedupCheck(r)
    \/ CreateAndAttach(r)
    \/ Finalize(r)

TaskStep(t) ==
    \/ ProcStart(t)
    \/ ProcRules(t)
    \/ ProcError(t)
    \/ ProcSave(t)
    \/ ProjStart(t)
    \/ ProjCreate(t)
    \/ ProjLink(t)
    \/ ContactsRun(t)

\* every stored message gets two process_email_message tasks, and each of them
\* queues two tasks at most
TaskIds == 1..(6 * NewMsgs)

NextPipe ==
    \/ \E r \in Runs : PipeStartSync(r)
    \/ \E r \in Runs : PipeSyncStep(r)
    \/ \E t \in TaskIds : TaskStep(t)

SpecPipe == InitPipe /\ [][NextPipe]_vars

\* a single worker: a task is taken only when no run and no other task is under way
WorkerFree(t) ==
    /\ NoRunUnderWay
    /\ \A t2 \in DOMAIN tasks : t2 # t => ~Running(t2)

NextPipeSeq ==
    \/ \E r \in Runs : WorkerFree(0) /\ PipeStartSync(r)
    \/ \E r \in Runs : PipeSyncStep(r)
    \/ \E t \in TaskIds : WorkerFree(t) /\ TaskStep(t)

SpecPipeSeq == InitPipe /\ [][NextPipeSeq]_vars

(* ---------------- the tasks of one stored message ---------------- *)
\* conditions of a rule: none, one that differs from the field in letter case, one
\* that is in no text
SenderConds == {<<>>, <<"a", "@">>, <<"c">>}
SubjectCondsStored == {<<>>, <<"b">>, <<"7", "8">>}
BodyConds == {<<>>, <<"I", "N", "N">>, <<"z", "b">>}

CondRules ==
    {[NewRule(U1, TRUE, DefaultPriority, sc, a) EXCEPT !.sender_contains = sn,
                                                      !.body_contains = bc] :
        sn \in SenderConds, sc \in SubjectCondsStored, bc \in BodyConds, a \in RuleActions}

\* the user has one rule, in NumRules copies
CopyTables == {[i \in 1..NumRules |-> r] : r \in CondRules}

\* a message with any of the texts is stored; the handler of post_save and the sync
\* task have queued process_email_message for it
InitStored ==
    /\ now = InitNow
    /\ \E tx \in DOMAIN Texts :
          mailbox = [m \in MsgIds |-> [received |-> InitNow, atts |-> 0,
                                       sender_ok |-> TRUE, text |-> tx]]
    /\ credentials = NewCredentials
    /\ emails = << NewEmail(U1, 1, InitNow) >>
    /\ attachments = <<>>
    /\ sync_logs = <<>>
    /\ run = [r \in Runs |-> IdleRun]
    /\ tasks = << NewTask("process_email_message", 1),
                  NewTask("process_email_message", 1) >>
    /\ rules \in CopyTables
    /\ companies \in CompanyTables
    /\ projects = <<>>
    /\ project_emails = <<>>
    /\ contacts = <<>>
    /\ inn = <<>>
    /\ edits = 0
    /\ valid = "unset"
    /\ inn_text = <<>>
    /\ extracted = NotCalled
    /\ accounts = <<>>
    /\ dispatched = <<>>
    /\ beats = 0

\* one worker runs the tasks
NextStored == \E t \in TaskIds : WorkerFree(t) /\ TaskStep(t)

SpecStored == InitStored /\ [][NextStored]_vars

(* ---------------- calls of _validate_inn on their own ---------------- *)
InitInn ==
    /\ now = InitNow
    /\ mailbox \in {mb \in Inboxes : \A m \in MsgIds : mb[m].received = 0}
    /\ credentials = NewCredentials
    /\ emails = <<>>
    /\ attachments = <<>>
    /\ sync_logs = <<>>
    /\ run = [r \in Runs |-> IdleRun]
    /\ tasks = <<>>
    /\ rules = <<>>
    /\ companies = <<>>
    /\ projects = <<>>
    /\ project_emails = <<>>
    /\ contacts = <<>>
    /\ inn \in SampleInns
    /\ edits = 0
    /\ valid = "unset"
    /\ inn_text = <<>>
    /\ extracted = NotCalled
    /\ accounts = <<>>
    /\ dispatched = <<>>
    /\ beats = 0

sync_vars ==
    <<now, mailbox, credentials, emails, attachments, sync_logs, run, tasks, crm_vars,
      disp_vars>>

\* the caller passes a string that differs in one more character
ReplaceChar ==
    /\ valid = "unset"
    /\ edits < MaxEdits
    /\ \E p \in DOMAIN inn, c \in Chars :
          /\ inn[p] # c
          /\ inn' = [inn EXCEPT ![p] = c]
    /\ edits' = edits + 1
    /\ UNCHANGED <<valid, inn_text, extracted, sync_vars>>

\* ... or one that is longer by a character
AppendChar ==
    /\ valid = "unset"
    /\ edits < MaxEdits
    /\ \E c \in Chars : inn' = Append(inn, c)
    /\ edits' = edits + 1
    /\ UNCHANGED <<valid, inn_text, extracted, sync_vars>>

\* ... or shorter by one
DropChar ==
    /\ valid = "unset"
    /\ edits < MaxEdits
    /\ inn # <<>>
    /\ inn' = SubSeq(inn, 1, Len(inn) - 1)
    /\ edits' = edits + 1
    /\ UNCHANGED <<valid, inn_text, extracted, sync_vars>>

\* self._validate_inn(inn)
CallValidateInn ==
    /\ valid = "unset"
    /\ valid' = ValidateInn(inn)
    /\ UNCHANGED <<inn, edits, inn_text, extracted, sync_vars>>

NextInn == ReplaceChar \/ AppendChar \/ DropChar \/ CallValidateInn

SpecInn == InitInn /\ [][NextInn]_vars

(* ---------------- calls of extract_inn on their own ---------------- *)
\* what the texts are put together from: a valid and an invalid tax ID of an
\* organisation, a second valid one, a valid one of a person, the label, a blank,
\* a letter
Pieces ==
    { <<"7", "7", "0", "7", "0", "8", "3", "8", "9", "3">>,
      <<"7", "7", "0", "7", "0", "8", "3", "8", "9", "4">>,
      <<"7", "7", "2", "8", "1", "6", "8", "9", "7", "1">>,
      <<"5", "0", "0", "1", "0", "0", "7", "3", "2", "2", "5", "9">>,
      <<"I", "N", "N", ":">>,
      <<" ">>,
      <<"a">> }

InitExtract ==
    /\ now = InitNow
    /\ mailbox \in {mb \in Inboxes : \A m \in MsgIds : mb[m].received = 0 /\ mb[m].atts = 0}
    /\ credentials = NewCredentials
    /\ emails = <<>>
    /\ attachments = <<>>
    /\ sync_logs = <<>>
    /\ run = [r \in Runs |-> IdleRun]
    /\ tasks = <<>>
    /\ rules = <<>>
    /\ companies = <<>>
    /\ projects = <<>>
    /\ project_emails = <<>>
    /\ contacts = <<>>
    /\ inn = <<>>
    /\ edits = 0
    /\ valid = "unset"
    /\ inn_text = <<>>
    /\ extracted = NotCalled
    /\ accounts = <<>>
    /\ dispatched = <<>>
    /\ beats = 0

\* the caller's text grows by a piece
AppendPiece ==
    /\ extracted = NotCalled
    /\ edits < MaxPieces
    /\ \E piece \in Pieces : inn_text' = inn_text \o piece
    /\ edits' = edits + 1
    /\ UNCHANGED <<inn, valid, extracted, sync_vars>>

\* parser.extract_inn(text)
CallExtractInn ==
    /\ extracted = NotCalled
    /\ extracted' = ExtractInn(inn_text)
    /\ UNCHANGED <<inn, edits, valid, inn_text, sync_vars>>

NextExtract == AppendPiece \/ CallExtractInn

SpecExtract == InitExtract /\ [][NextExtract]_vars

(* ---------------- messages that arrive while the account is synced ---------------- *)
\* a message with received = NoTime has not been delivered to the inbox yet
ArriveInboxes ==
    {mb \in [MsgIds -> [received : {NoTime, InitNow}, atts : 0..MaxAtt,
                        sender_ok : {TRUE}, text : {1}]] :
        \A i, j \in MsgIds : i < j => mb[i].received >= mb[j].received}

InitArrive ==
    /\ now = InitNow
    /\ mailbox \in ArriveInboxes
    /\ credentials = NewCredentials
    /\ emails = <<>>
    /\ attachments = <<>>
    /\ sync_logs = <<>>
    /\ run = [r \in Runs |-> IdleRun]
    /\ tasks = <<>>
    /\ rules = <<>>
    /\ companies = <<>>
    /\ projects = <<>>
    /\ project_emails = <<>>
    /\ contacts = <<>>
    /\ inn = <<>>
    /\ edits = 0
    /\ valid = "unset"
    /\ inn_text = <<>>
    /\ extracted = NotCalled
    /\ accounts = <<>>
    /\ dispatched = <<>>
    /\ beats = 0

\* the Exchange server delivers message m: datetime_received is the time of the
\* delivery, and the clock moves on
Arrive(m) ==
    /\ mailbox[m].received = NoTime
    /\ mailbox' = [mailbox EXCEPT ![m].received = now]
    /\ now' = now + 1
    /\ UNCHANGED <<credentials, emails, attachments, sync_logs, run, tasks, crm_vars, parse_vars>>

\* one run after the other, every message well-formed, while messages arrive
NextArrive ==
    \/ \E r \in Runs : NoRunUnderWay /\ StartSync(r)
    \/ \E r \in Runs : ConnectOk(r)
    \/ \E r \in Runs : ConnectError(r)
    \/ \E r \in Runs : DedupCheck(r)
    \/ \E r \in Runs : CreateAndAttach(r)
    \/ \E r \in Runs : Finalize(r)
    \/ \E m \in MsgIds : Arrive(m)

SpecArrive == InitArrive /\ [][NextArrive]_vars

(* ---------------- the loop body of sync_user_emails, statement by statement ---------------- *)
\* NewMsgs messages, with attachments or without, have arrived; the rest of the
\* inbox is too old to be fetched
GapInboxes ==
    {mb \in [MsgIds -> [received : {0, InitNow}, atts : 0..MaxAtt, sender_ok : {TRUE},
                        text : TextIds]] :
        /\ \A m \in MsgIds : mb[m].received = InitNow <=> m <= NewMsgs
        /\ \A m \in MsgIds : mb[m].received = 0 => mb[m].atts = 0 /\ mb[m].text = 1}

InitGap ==
    /\ now = InitNow
    /\ mailbox \in GapInboxes
    /\ credentials = NewCredentials
    /\ emails = <<>>
    /\ attachments = <<>>
    /\ sync_logs = <<>>
    /\ run = [r \in Runs |-> IdleRun]
    /\ tasks = <<>>
    /\ rules = <<>>
    /\ companies = <<>>
    /\ projects = <<>>
    /\ project_emails = <<>>
    /\ contacts = <<>>
    /\ inn = <<>>
    /\ edits = 0
    /\ valid = "unset"
    /\ inn_text = <<>>
    /\ extracted = NotCalled
    /\ accounts = <<>>
    /\ dispatched = <<>>
    /\ beats = 0

\* email_obj = EmailMessage.objects.create(...): the row is stored and post_save
\* runs email_received_handler, which calls process_email_message.delay(instance.id)
CreateRow(r) ==
    /\ run[r].pc = "create"
    /\ mailbox[CurMsg(r)].sender_ok
    /\ ~MessageIdTaken(CurMsg(r))
    /\ emails' = Append(emails, NewEmail(U1, CurMsg(r), now))
    /\ tasks' = Append(tasks, NewTask("process_email_message", Len(emails) + 1))
    /\ UNCHANGED <<now, mailbox, credentials, attachments, sync_logs, run, crm_vars, parse_vars>>

\* the row CreateRow stored for the message the loop is at
CurRow(r) == CHOOSE i \in DOMAIN emails :
                emails[i].user = U1 /\ emails[i].message_id = CurMsg(r)

\* the attachment loop, then process_email_message.delay(email_obj.id) and
\* emails_processed += 1
AttachAndQueue(r) ==
    /\ run[r].pc = "create"
    /\ ExistingEmail(U1, CurMsg(r))
    /\ \E dl \in [1..mailbox[CurMsg(r)].atts -> BOOLEAN] :
          /\ attachments' = attachments \o AttachmentRows(CurRow(r), CurMsg(r), dl)
          /\ run' = [run EXCEPT ![r] =
                [@ EXCEPT !.pc = "loop", !.i = @ + 1, !.emails_processed = @ + 1,
                          !.attachments_downloaded =
                              @ + Cardinality({k \in DOMAIN dl : dl[k]})]]
    /\ tasks' = Append(tasks, NewTask("process_email_message", CurRow(r)))
    /\ UNCHANGED <<now, mailbox, credentials, emails, sync_logs, crm_vars, parse_vars>>

\* one sync run and the executions of process_email_message, on MaxWorkers workers
NextGap ==
    \/ \E r \in Runs : PipeStartSync(r)
    \/ \E r \in Runs : ConnectOk(r)
    \/ \E r \in Runs : DedupCheck(r)
    \/ \E r \in Runs : CreateRow(r)
    \/ \E r \in Runs : AttachAndQueue(r)
    \/ \E r \in Runs : Finalize(r)
    \/ \E t \in TaskIds : ProcStart(t)
    \/ \E t \in TaskIds : ProcRules(t)
    \/ \E t \in TaskIds : ProcSave(t)

SpecGap == InitGap /\ [][NextGap]_vars

(* ---------------- create_contacts_from_email, statement by statement ---------------- *)
\* the texts in which extract_contacts finds entries
ContactTexts == {tx \in DOMAIN Texts : Texts[tx].contacts # <<>>}

\* the Contact rows there are before: none, one of the user, one of another user
ContactTables ==
    {<<>>} \cup {<< [user |-> u, email |-> "x@y.zz", phone |-> ""] >> : u \in {U1, U2}}

\* a message is stored and processed; each of its two executions of
\* process_email_message has queued create_contacts_from_email with the same entries
InitContacts ==
    /\ now = InitNow
    /\ \E tx \in ContactTexts :
          mailbox = [m \in MsgIds |-> [received |-> InitNow, atts |-> 0,
                                       sender_ok |-> TRUE, text |-> tx]]
    /\ credentials = NewCredentials
    /\ emails = << [WithContacts(NewEmail(U1, 1, InitNow)) EXCEPT !.is_processed = TRUE] >>
    /\ attachments = <<>>
    /\ sync_logs = <<>>
    /\ run = [r \in Runs |-> IdleRun]
    /\ tasks = [i \in 1..2 |-> [NewTask("create_contacts_from_email", 1)
                                  EXCEPT !.contacts_data = emails[1].parsed_contacts]]
    /\ rules = <<>>
    /\ companies = <<>>
    /\ projects = <<>>
    /\ project_emails = <<>>
    /\ contacts \in ContactTables
    /\ inn = <<>>
    /\ edits = 0
    /\ valid = "unset"
    /\ inn_text = <<>>
    /\ extracted = NotCalled
    /\ accounts = <<>>
    /\ dispatched = <<>>
    /\ beats = 0

\* email = EmailMessage.objects.get(id=email_id)
ContactsStart(t) ==
    /\ NextInQueue(t)
    /\ tasks[t].name = "create_contacts_from_email"
    /\ tasks' = [tasks EXCEPT ![t] = [@ EXCEPT !.pc = "check", !.loc = emails[tasks[t].email]]]
    /\ UNCHANGED <<now, mailbox, credentials, emails, attachments, sync_logs, run,
                   crm_vars, parse_vars>>

\* existing_contact = Contact.objects.filter(user=..., email=...).first();
\* if existing_contact: continue.  contacts_data holds the entries still to come.
ContactCheck(t) ==
    /\ t \in DOMAIN tasks
    /\ tasks[t].name = "create_contacts_from_email"
    /\ tasks[t].pc = "check"
    /\ IF tasks[t].contacts_data = <<>>
       THEN tasks' = [tasks EXCEPT ![t] = TaskDone(@)]
       ELSE IF \E i \in DOMAIN contacts :
                  /\ contacts[i].user = tasks[t].loc.user
                  /\ contacts[i].email = Head(tasks[t].contacts_data).email
            THEN tasks' = [tasks EXCEPT ![t].contacts_data = Tail(@)]
            ELSE tasks' = [tasks EXCEPT ![t].pc = "insert"]
    /\ UNCHANGED <<now, mailbox, credentials, emails, attachments, sync_logs, run,
                   crm_vars, parse_vars>>

\* Contact.objects.create(user=email.user, email=..., phone=...)
ContactInsert(t) ==
    /\ t \in DOMAIN tasks
    /\ tasks[t].name = "create_contacts_from_email"
    /\ tasks[t].pc = "insert"
    /\ contacts' = Append(contacts, [user |-> tasks[t].loc.user,
                                     email |-> Head(tasks[t].contacts_data).email,
                                     phone |-> Head(tasks[t].contacts_data).phone])
    /\ tasks' = [tasks EXCEPT ![t] = [@ EXCEPT !.pc = "check", !.contacts_data = Tail(@)]]
    /\ UNCHANGED <<now, mailbox, credentials, emails, attachments, sync_logs, run,
                   rules, companies, projects, project_emails, parse_vars>>

NextContacts ==
    \/ \E t \in TaskIds : ContactsStart(t)
    \/ \E t \in TaskIds : ContactCheck(t)
    \/ \E t \in TaskIds : ContactInsert(t)

SpecContacts == InitContacts /\ [][NextContacts]_vars

(* ---------------- sync_all_user_emails ---------------- *)
AccountIds == 1..NumAccounts

\* sync_interval, in minutes
Intervals == {1, 2}

\* rows of EmailCredentials: here the clock counts minutes
AccountRows ==
    [is_active : BOOLEAN, last_sync : {NoTime, InitNow - 2, InitNow - 1},
     sync_interval : Intervals]

AccountRank(c) ==
    (c.last_sync + 1) * 100 + c.sync_interval * 2 + (IF c.is_active THEN 1 ELSE 0)

\* Account ids are interchangeable names, so every table of accounts is listed once,
\* with its rows in the order of their ranks.
AccountTables ==
    {ac \in [AccountIds -> AccountRows] :
        \A i, j \in AccountIds : i < j => AccountRank(ac[i]) <= AccountRank(ac[j])}

\* (mutant) an account is skipped also when exactly its interval has passed
NotYetDueInclusive(c, t) ==
    c.last_sync # NoTime /\ (t - c.last_sync) * 60 <= c.sync_interval * 60

\* if credentials.last_sync: time_diff = now - last_sync;
\* if time_diff.total_seconds() < sync_interval * 60: continue
NotYetDue(c, t) ==
    c.last_sync # NoTime /\ (t - c.last_sync) * 60 < c.sync_interval * 60

\* the accounts the loop queues sync_user_emails for
ToDispatch(t) ==
    {a \in AccountIds : accounts[a].is_active /\ ~NotYetDue(accounts[a], t)}

\* the sequences that hold every element of the set once
Orders(set) ==
    {o \in [1..Cardinality(set) -> set] : \A i, j \in DOMAIN o : i # j => o[i] # o[j]}

InitDispatch ==
    /\ now = InitNow
    /\ mailbox \in {mb \in Inboxes : \A m \in MsgIds : mb[m].received = 0 /\ mb[m].atts = 0}
    /\ credentials = NewCredentials
    /\ emails = <<>>
    /\ attachments = <<>>
    /\ sync_logs = <<>>
    /\ run = [r \in Runs |-> IdleRun]
    /\ tasks = <<>>
    /\ rules = <<>>
    /\ companies = <<>>
    /\ projects = <<>>
    /\ project_emails = <<>>
    /\ contacts = <<>>
    /\ inn = <<>>
    /\ edits = 0
    /\ valid = "unset"
    /\ inn_text = <<>>
    /\ extracted = NotCalled
    /\ accounts \in AccountTables
    /\ dispatched = <<>>
    /\ beats = 0

disp_frame ==
    <<mailbox, credentials, emails, attachments, sync_logs, run, tasks, crm_vars,
      inn, edits, valid, inn_text, extracted>>

\* sync_all_user_emails(): the rows with is_active=True, in the order the database
\* returns them; sync_user_emails.delay(...) for each one that is due
SyncAllUserEmails ==
    /\ beats < MaxBeats
    /\ \E o \in Orders(ToDispatch(now)) :
          dispatched' = dispatched \o [i \in DOMAIN o |-> [account |-> o[i], beat |-> beats + 1]]
    /\ beats' = beats + 1
    /\ UNCHANGED <<now, accounts, disp_frame>>

\* a minute passes
Tick ==
    /\ now < InitNow + MaxTicks
    /\ now' = now + 1
    /\ UNCHANGED <<accounts, dispatched, beats, disp_frame>>

\* a queued sync_user_emails finishes: credentials.last_sync = timezone.now()
SyncFinished ==
    /\ \E i \in DOMAIN dispatched :
          /\ accounts[dispatched[i].account].last_sync < now
          /\ accounts' = [accounts EXCEPT ![dispatched[i].account].last_sync = now]
    /\ UNCHANGED <<now, dispatched, beats, disp_frame>>

NextDispatch == SyncAllUserEmails \/ Tick \/ SyncFinished

SpecDispatch == InitDispatch /\ [][NextDispatch]_vars

(***************************************************************************)
(* Properties                                                              *)
(***************************************************************************)
RowsOf(u, m) == {i \in DOMAIN emails : emails[i].user = u /\ emails[i].message_id = m}

ErrorsFor(r, m) == {j \in DOMAIN run[r].errors : run[r].errors[j].message_id = m}

\* the per-message loop of run r has handled every fetched message
LoopComplete(r) == run[r].pc = "loop" /\ run[r].i > Len(run[r].window)

\* the messages of r's window that were stored before r started
AlreadyIngested(r) ==
    {m \in Range(run[r].window) :
        \E i \in RowsOf(U1, m) : emails[i].created_at < sync_logs[run[r].log].started_at}

\* C1: with runs one after the other, no message identifier ever has two
\* EmailMessage rows; when a run has handled its window, every message of the
\* window has exactly one row unless the run recorded an error for it, and the
\* run's emails_skipped is the number of window messages ingested before it started.
C1_IdempotentIngestion ==
    /\ \A m \in MsgIds : Cardinality(RowsOf(U1, m)) <= 1
    /\ \A r \in Runs : LoopComplete(r) =>
          /\ run[r].emails_skipped = Cardinality(AlreadyIngested(r))
          /\ \A m \in Range(run[r].window) :
                Cardinality(RowsOf(U1, m)) = 1 \/ ErrorsFor(r, m) # {}

\* a second run whose window contains a message the first run ingested
C1_Witness ==
    \E r \in Runs :
        /\ r >= 2
        /\ LoopComplete(r)
        /\ AlreadyIngested(r) # {}
        /\ run[r].emails_skipped >= 1

\* the attachment rows of reference k of the stored message i
AttRows(i, k) == {a \in DOMAIN attachments : attachments[a].email = i /\ attachments[a].ref = k}

\* the stored message i is not the one a run is working on
Handled(i) ==
    \A r \in Runs : run[r].pc = "create" => CurMsg(r) # emails[i].message_id

\* C2: every attachment reference of a stored message that a run has handled has
\* exactly one EmailAttachment row, downloaded or with the error text recorded.
C2_AttachmentTrace ==
    \A i \in DOMAIN emails :
        (emails[i].user = U1 /\ Handled(i)) =>
            \A k \in 1..mailbox[emails[i].message_id].atts :
                /\ Cardinality(AttRows(i, k)) = 1
                /\ \A a \in AttRows(i, k) :
                      \/ attachments[a].is_downloaded /\ attachments[a].download_errors = ""
                      \/ ~attachments[a].is_downloaded /\ attachments[a].download_errors # ""

\* a message raises before it is stored: it has no sender, or its identifier is
\* stored for another user
Failing(m) == ~mailbox[m].sender_ok \/ (MessageIdTaken(m) /\ ~ExistingEmail(U1, m))

\* C3: when the loop of a run is through, every fetched message is skipped,
\* persisted or has exactly one error entry; no failing message keeps another
\* message from being stored.
C3_PartialFailure ==
    \A r \in Runs : LoopComplete(r) =>
        /\ \A m \in Range(run[r].window) :
              /\ Cardinality(ErrorsFor(r, m)) <= 1
              /\ ErrorsFor(r, m) = {} => ExistingEmail(U1, m)
              /\ Failing(m) => Cardinality(ErrorsFor(r, m)) = 1
        /\ \A j \in DOMAIN run[r].errors : run[r].errors[j].message_id \in Range(run[r].window)
        /\ Len(run[r].errors) + run[r].emails_processed + run[r].emails_skipped
              = Len(run[r].window)

\* a run in which a message failed and a message fetched after it was stored
C3_Witness ==
    \E r \in Runs :
        /\ LoopComplete(r)
        /\ \E a, b \in DOMAIN run[r].window :
              /\ a < b
              /\ Failing(run[r].window[a])
              /\ ErrorsFor(r, run[r].window[a]) # {}
              /\ \E i \in RowsOf(U1, run[r].window[b]) :
                    emails[i].created_at >= sync_logs[run[r].log].started_at

\* C4: a run that completed its loop with an error recorded ends as partial.
C4_ErrorsMeanPartial ==
    \A r \in Runs :
        (run[r].pc = "done" /\ sync_logs[run[r].log].errors # <<>>) =>
            sync_logs[run[r].log].status = "partial"

\* C5: the step in which a run fails at the connection does not change last_sync.
C5_FailedRunKeepsWatermark ==
    [][\A r \in Runs :
          (run[r].pc = "connect" /\ run'[r].pc = "failed") =>
              credentials'.last_sync = credentials.last_sync]_vars

\* the value of the decimal digit c
DigitOf(c) == CHOOSE n \in 0..9 : DigitVal[c] = n

\* the checksum of the first n characters of str under the weights w
Checksum(str, w, n) == (SeqSum([i \in 1..n |-> DigitOf(str[i]) * w[i]]) % 11) % 10

\* C7: _validate_inn returns true exactly for strings of 10 decimal digits whose
\* 10th digit is the weighted checksum of the first 9, and for strings of 12
\* decimal digits whose 11th and 12th digits are the checksums of the first 10
\* and the first 11; for everything else it returns false, and it never raises.
C7_ValidateInn ==
    valid # "unset" =>
        /\ valid \in {"true", "false"}
        /\ valid = "true" <=>
              /\ \A i \in DOMAIN inn : inn[i] \in Digits
              /\ \/ /\ Len(inn) = 10
                    /\ DigitOf(inn[10]) = Checksum(inn, <<2, 4, 10, 3, 5, 9, 4, 6, 8>>, 9)
                 \/ /\ Len(inn) = 12
                    /\ DigitOf(inn[11]) = Checksum(inn, <<7, 2, 4, 10, 3, 5, 9, 4, 6, 8>>, 10)
                    /\ DigitOf(inn[12]) = Checksum(inn, <<3, 7, 2, 4, 10, 3, 5, 9, 4, 6, 8>>, 11)

\* a changed 10-digit string was accepted, so its checksum was computed anew
C7_Witness ==
    /\ valid = "true"
    /\ Len(inn) = 10
    /\ edits = MaxEdits
    /\ inn \notin SampleInns

\* a run that went past the lookup of the active credentials
Started(r) == run[r].pc \notin {"idle", "rejected"}

Executions(pk) ==
    {t \in DOMAIN tasks :
        /\ tasks[t].name = "process_email_message"
        /\ tasks[t].email = pk
        /\ tasks[t].pc \in {"save", "done"}}

\* the rules that fired for the stored message pk, over all executions
FiredFor(pk) == UNION {tasks[t].fired : t \in Executions(pk)}

\* the active rules of the message's user that match it
Eligible(pk) == MatchingRules(emails[pk])

C9_ProcessedOnce ==
    \A pk \in DOMAIN emails :
        /\ Cardinality(Executions(pk)) <= 1
        /\ emails[pk].is_processed =>
              \E t \in Executions(pk) : tasks[t].pc = "done"

\* C10: no message identifier is the source_email_id of two projects of the user.
C10_OneProjectPerMessage ==
    \A m \in MsgIds :
        Cardinality({p \in DOMAIN projects :
                        projects[p].user = U1 /\ projects[p].source_email_id = m}) <= 1

\* the executions of process_email_message for the stored message pk that ran to
\* the end without an exception
Completed(pk) ==
    {t \in DOMAIN tasks :
        /\ tasks[t].name = "process_email_message"
        /\ tasks[t].email = pk
        /\ tasks[t].pc = "done"
        /\ ~tasks[t].caught}

\* the first of them
FirstRun(pk) == CHOOSE t \in Completed(pk) : \A t2 \in Completed(pk) : t <= t2

\* C11: with one worker, an execution of process_email_message that ends after
\* another one has completed for the same message leaves the EmailMessage table as
\* it was, and a project with the message as its source or a contact exists only
\* if the rule the first execution applied creates projects or contacts.
C11_SecondRunChangesNothing ==
    /\ [][\A t \in DOMAIN tasks :
            (/\ tasks[t].name = "process_email_message"
             /\ tasks[t].pc = "save"
             /\ tasks'[t].pc = "done"
             /\ Completed(tasks[t].email) # {}) => emails' = emails]_vars
    /\ [](\A pk \in DOMAIN emails : Completed(pk) # {} =>
            /\ ExistingProject(emails[pk].user, emails[pk].message_id) =>
                  \E q \in tasks[FirstRun(pk)].fired : rules[q].auto_create_project
            /\ (NewMsgs = 1 /\ contacts # <<>>) =>
                  \E q \in tasks[FirstRun(pk)].fired : rules[q].auto_create_contact)

\* C12: the step in which an execution of process_email_message ends leaves the
\* message with is_processed true; when the except branch ran, it has appended one
\* entry to processing_errors.
C12_ProcessedAfterError ==
    [][\A t \in DOMAIN tasks :
          (/\ tasks[t].name = "process_email_message"
           /\ tasks[t].pc # "done"
           /\ tasks'[t].pc = "done") =>
              /\ emails'[tasks[t].email].is_processed
              /\ tasks'[t].caught =>
                    Len(emails'[tasks[t].email].processing_errors)
                        = Len(emails[tasks[t].email].processing_errors) + 1]_vars

\* the EmailMessage rows of the syncing user stored since run r started; with runs
\* one after the other these are the rows r created
CreatedBy(r) ==
    {i \in DOMAIN emails :
        /\ emails[i].user = U1
        /\ emails[i].created_at >= sync_logs[run[r].log].started_at}

\* the step in which run r ends with status failed
EndsFailed(r) == run[r].pc # "failed" /\ run'[r].pc = "failed"

\* C13: a run that ends with status failed ends at the connection, before the
\* fetch and the loop, and has created no EmailMessage and no EmailAttachment row.
C13_FailedRunCreatedNothing ==
    [][\A r \in Runs : EndsFailed(r) =>
          /\ run[r].pc = "connect"
          /\ CreatedBy(r) = {}
          /\ \A a \in DOMAIN attachments : attachments[a].email \notin CreatedBy(r)]_vars

\* C14: the step in which a run ends as success or partial adds the run's
\* emails_processed to total_emails_processed, and the step in which a run ends as
\* failed leaves total_emails_processed as it was.
C14_LifetimeCounter ==
    [][\A r \in Runs :
          /\ (run[r].pc = "loop" /\ run'[r].pc = "done") =>
                credentials'.total_emails_processed
                    = credentials.total_emails_processed + run[r].emails_processed
          /\ EndsFailed(r) =>
                credentials'.total_emails_processed = credentials.total_emails_processed]_vars

\* C15: the step in which a run fails at the connection sets last_error and
\* last_error_time of the account to this failure and leaves is_active as it was.
C15_ConnectionErrorRecorded ==
    [][\A r \in Runs : (run[r].pc = "connect" /\ run'[r].pc = "failed") =>
          /\ credentials'.last_error = sync_logs'[run[r].log].errors[1]
          /\ credentials'.last_error_time = now
          /\ credentials'.is_active = credentials.is_active]_vars

\* C16: no execution of sync_user_emails ends with an exception leaving the task.
C16_NothingPropagates == \A r \in Runs : run[r].pc # "raised"

\* C17: when the loop of a run is through, every fetched message that has a sender
\* has a row of the syncing user, also when its identifier is stored for another
\* user, and the run skipped exactly the messages the user had before the run.
C17_UniquePerUser ==
    \A r \in Runs : LoopComplete(r) =>
        /\ \A m \in Range(run[r].window) : mailbox[m].sender_ok => RowsOf(U1, m) # {}
        /\ run[r].emails_skipped = Cardinality(AlreadyIngested(r))

\* C19: every message a run has stored, with the notification emitted or not, is
\* counted in the run's emails_processed, has no error entry in the run and has one
\* EmailAttachment row for each of its attachment references.
C19_NotificationBestEffort ==
    \A r \in Runs : run[r].pc = "loop" =>
        /\ run[r].emails_processed = Cardinality(CreatedBy(r))
        /\ \A i \in CreatedBy(r) :
              /\ ErrorsFor(r, emails[i].message_id) = {}
              /\ \A k \in 1..mailbox[emails[i].message_id].atts : AttRows(i, k) # {}

\* the companies of the message's user with its parsed tax ID
OwnCompanies(e) ==
    {c \in DOMAIN companies :
        companies[c].user = e.user /\ companies[c].inn = e.parsed_inn}

\* C18: once an execution of process_email_message has completed for a message,
\* the message is linked to a Company exactly when the user of the message has a
\* Company with the message's parsed tax ID, and a linked Company is the user's.
C18_LinkedWhenCompanyExists ==
    \A pk \in DOMAIN emails : Completed(pk) # {} =>
        /\ emails[pk].related_company # 0 <=> OwnCompanies(emails[pk]) # {}
        /\ emails[pk].related_company # 0 =>
              companies[emails[pk].related_company].user = emails[pk].user

IsValidInn(c) == ValidateInn(c) = "true"

\* the first element of the sequence of candidates that validates, <<>> if none
FirstValid(cands) ==
    IF \A k \in DOMAIN cands : ~IsValidInn(cands[k]) THEN <<>>
    ELSE cands[CHOOSE k \in DOMAIN cands :
                  IsValidInn(cands[k]) /\ \A j \in 1..(k - 1) : ~IsValidInn(cands[j])]

\* C20: what extract_inn returns is the first match that validates of the first
\* pattern, in the order of INN_PATTERNS, that has a match that validates; it is
\* None when no match of any pattern validates, and it is never a value that
\* _validate_inn rejects.
C20_FirstValidCandidate ==
    extracted # NotCalled =>
        LET p1 == BareMatches(inn_text, 10)
            p2 == BareMatches(inn_text, 12)
            p3 == LabelMatches(inn_text, CyrInn, <<>>)
            p4 == LabelMatches(inn_text, LatInn, <<>>)
            p5 == LabelMatches(inn_text, CyrInn, CyrOrg)
        IN /\ extracted = (IF FirstValid(p1) # <<>> THEN FirstValid(p1)
                       ELSE IF FirstValid(p2) # <<>> THEN FirstValid(p2)
                       ELSE IF FirstValid(p3) # <<>> THEN FirstValid(p3)
                       ELSE IF FirstValid(p4) # <<>> THEN FirstValid(p4)
                       ELSE FirstValid(p5))
           /\ extracted # <<>> => IsValidInn(extracted)
           /\ extracted = <<>> <=>
                 \A k \in DOMAIN InnCandidates(inn_text) : ~IsValidInn(InnCandidates(inn_text)[k])

\* a text whose first match fails the check and whose returned value comes later
C20_Witness ==
    /\ extracted # NotCalled
    /\ extracted # <<>>
    /\ InnCandidates(inn_text) # <<>>
    /\ ~IsValidInn(Head(InnCandidates(inn_text)))

\* C21: once an execution of process_email_message has completed for a message
\* whose subject holds a valid tax ID and whose body holds none, the message's
\* parsed tax ID is the one of the subject.
C21_SubjectTaxId ==
    \A pk \in DOMAIN emails :
        (/\ Completed(pk) # {}
         /\ ExtractInn(Subject(emails[pk])) # <<>>
         /\ ExtractInn(BodyText(emails[pk]) \o <<" ">> \o BodyHtml(emails[pk])) = <<>>) =>
            emails[pk].parsed_inn = ExtractInn(Subject(emails[pk]))

\* needle occurs in hay when letter case is ignored
ContainsCI(needle, hay) ==
    \E p \in 0..(Len(hay) - Len(needle)) :
        \A i \in 1..Len(needle) : Lower(hay[p + i]) = Lower(needle[i])

\* every condition of the rule that is set occurs in its field of the message
CondsHold(rule, e) ==
    /\ rule.sender_contains = <<>> \/ ContainsCI(rule.sender_contains, Sender(e))
    /\ rule.subject_contains = <<>> \/ ContainsCI(rule.subject_contains, Subject(e))
    /\ rule.body_contains = <<>> \/ ContainsCI(rule.body_contains, BodyText(e) \o BodyHtml(e))

\* the executions of process_email_message that are through the loop over the rules
PastRules ==
    {t \in DOMAIN tasks :
        /\ tasks[t].name = "process_email_message"
        /\ tasks[t].pc \in {"save", "done"}
        /\ ~tasks[t].caught}

\* C23: an execution of process_email_message applies a rule only if each condition
\* of the rule that is set is a case-insensitive substring of the sender, the
\* subject or the body of the message, and it applies no rule only if no active
\* rule of the user is such a rule; a rule with no condition set matches.
C23_RuleMatches ==
    \A t \in PastRules :
        LET e == emails[tasks[t].email]
            matching == {q \in DOMAIN rules :
                            rules[q].user = e.user /\ rules[q].is_active /\ CondsHold(rules[q], e)}
        IN /\ tasks[t].fired \subseteq matching
           /\ tasks[t].fired = {} <=> matching = {}

\* a rule whose sender condition differs from the sender in letter case was applied
C23_Witness ==
    \E t \in PastRules : \E q \in tasks[t].fired :
        /\ rules[q].sender_contains # <<>>
        /\ ~Contains(rules[q].sender_contains, Sender(emails[tasks[t].email]))

\* the tasks execution b of sync_all_user_emails queued for account a
QueuedFor(seq, a, b) == {i \in DOMAIN seq : seq[i].account = a /\ seq[i].beat = b}

\* the account is active and has never synced or synced sync_interval minutes ago
\* or earlier
IsDue(a) ==
    /\ accounts[a].is_active
    /\ accounts[a].last_sync = NoTime \/ now - accounts[a].last_sync >= accounts[a].sync_interval

\* C22: an execution of sync_all_user_emails queues exactly one sync_user_emails
\* task for every active account whose last_sync is unset or at least sync_interval
\* minutes in the past, and none for any other account.
C22_DispatchDueAccounts ==
    [][beats' = beats + 1 =>
          /\ \A a \in AccountIds :
                Cardinality(QueuedFor(dispatched', a, beats')) = (IF IsDue(a) THEN 1 ELSE 0)
          /\ Len(dispatched') = Len(dispatched) + Cardinality({a \in AccountIds : IsDue(a)})
          /\ SubSeq(dispatched', 1, Len(dispatched)) = dispatched]_vars

\* an execution that queued a task for an account whose interval has just elapsed
\* and none for an inactive account and for one that synced a minute ago
C22_Witness ==
    /\ beats >= 1
    /\ \E a \in AccountIds :
          /\ accounts[a].last_sync # NoTime
          /\ now - accounts[a].last_sync = accounts[a].sync_interval
          /\ QueuedFor(dispatched, a, beats) # {}
    /\ \E a \in AccountIds :
          /\ ~accounts[a].is_active \/ now - accounts[a].last_sync < accounts[a].sync_interval
          /\ QueuedFor(dispatched, a, beats) = {}

\* the Contact rows of user u with the email em
ContactsWith(rows, u, em) == {i \in DOMAIN rows : rows[i].user = u /\ rows[i].email = em}

\* C24: create_contacts_from_email creates no Contact with an email that one of the
\* user's Contacts has already, and when its tasks are through, the user has a
\* Contact for the email of every entry.
C24_ContactPerNewEmail ==
    /\ [][\A i \in DOMAIN contacts' \ DOMAIN contacts :
              ContactsWith(contacts, contacts'[i].user, contacts'[i].email) = {}]_vars
    /\ []((\A t \in DOMAIN tasks : tasks[t].pc = "done") =>
              \A pk \in DOMAIN emails : \A k \in DOMAIN emails[pk].parsed_contacts :
                  ContactsWith(contacts, emails[pk].user,
                               emails[pk].parsed_contacts[k].email) # {})

\* every attachment reference of the stored message pk has its EmailAttachment row
AllRecorded(rows, atts, pk) ==
    \A k \in 1..mailbox[rows[pk].message_id].atts :
        \E a \in DOMAIN atts : atts[a].email = pk /\ atts[a].ref = k

\* C25: process_email_message is queued for a message only when the rows of all its
\* attachments are stored, and no execution of it starts before they are.
C25_ProcessingAfterAttachments ==
    [][/\ \A t \in DOMAIN tasks' \ DOMAIN tasks :
              tasks'[t].name = "process_email_message" =>
                  AllRecorded(emails', attachments', tasks'[t].email)
       /\ \A t \in DOMAIN tasks :
              (/\ tasks[t].name = "process_email_message"
               /\ tasks[t].pc = "queued"
               /\ tasks'[t].pc = "rules") =>
                  AllRecorded(emails, attachments, tasks[t].email)]_vars

\* C26: whatever the interleaving of the sync runs of the account, no step moves
\* credentials.last_sync to an earlier time (a watermark that is set stays set).
C26_WatermarkMonotone ==
    [][/\ credentials.last_sync # NoTime => credentials'.last_sync # NoTime
       /\ credentials'.last_sync >= credentials.last_sync]_vars

\* C27: no message is permanently missed.  Between runs every delivered message is
\* stored for the user or is still inside the window the next run fetches
\* (received at or after the date the next run filters by); runs follow each other
\* and the watermark of such runs only grows, so a message outside the window
\* that is not stored is fetched by no later run.
C27_NoMessageMissed ==
    NoRunUnderWay =>
        \A m \in MsgIds :
            mailbox[m].received # NoTime =>
                \/ ExistingEmail(U1, m)
                \/ mailbox[m].received >= SinceDate(credentials, now)

\* C28: a message that create_project_from_email has linked to its project
\* (related_project set) keeps a link: no step of any task empties it.
C28_LinkKept ==
    [][\A pk \in DOMAIN emails :
           emails[pk].related_project # 0 => emails'[pk].related_project # 0]_vars

\* C29: create_project_from_email is all-or-nothing.  When an execution that
\* created a Project row finishes, the ProjectEmail record of that project and the
\* message's related_project link to it exist.
C29_ProjectAllOrNothing ==
    [][\A t \in DOMAIN tasks :
           (/\ tasks[t].name = "create_project_from_email"
            /\ tasks[t].pc # "done"
            /\ tasks'[t].pc = "done"
            /\ tasks'[t].project # 0) =>
               /\ \E i \in DOMAIN project_emails' :
                      project_emails'[i].project = tasks'[t].project
               /\ emails'[tasks[t].email].related_project = tasks'[t].project]_vars

\* C30: an EmailSyncLog row with status "success" belongs to a finalized run
\* (completed_at set) that processed at least one message.
C30_SuccessMeansFinalized ==
    \A l \in DOMAIN sync_logs :
        sync_logs[l].status = "success" =>
            /\ sync_logs[l].completed_at # NoTime
            /\ sync_logs[l].emails_processed > 0
====
